---- MODULE Spec2Model ----
(***************************************************************************)
(* Model of the Lista-de-Tareas backend (mp1-backend): the login throttle  *)
(* and token issuance of the user controller, the auth middleware and the  *)
(* session check, and the task controller (create, list, get, update,      *)
(* delete, stats).                                                         *)
(*                                                                         *)
(* Time is Date.now() in milliseconds.  A handler that awaits is split at  *)
(* the await: the event loop may run other handlers, and the clock may     *)
(* advance, between the two halves.                                        *)
(***************************************************************************)
EXTENDS Integers, Sequences, FiniteSets, Bags, TLC

VARIABLES
  now,            \* Date.now(), in ms
  advances,       \* how many times the clock has been advanced (bounded)
  logins,         \* how many login requests have reached bcrypt.compare (bounded)
  users,          \* the User collection: a set of user documents
  loginAttempts,  \* userController's module-level table: email -> entry or NoEntry
  pending,        \* login requests suspended at `await bcrypt.compare`: a bag of
                  \* [email, password, user], user the document findOne returned
  cookie,         \* the token cookie the last successful login set
  issuedAt,       \* history: Date.now() when that login signed the token
  resp,           \* the last response sent (or middleware outcome)
  fails,          \* history: consecutive wrong-password 401s per email
  lastFail,       \* history: time of the last of 5 or more consecutive such 401s
  tasks,          \* the Task collection: a set of task documents
  nextId,         \* the next task _id the store hands out
  statsPending,   \* getTaskStats suspended at `await Task.countDocuments`
  statsQuiet,     \* history: no task was written since the pending aggregation
  nextUserId,     \* the next user _id the store hands out
  signing,        \* signup requests past the existence check, before user.save()
  resetting,      \* resetPassword requests past findOne, before user.save()
  nextReset,      \* the next value crypto.randomBytes returns (never one seen before)
  mail,           \* the reset tokens sendEmail has delivered
  cleared,        \* the tokens whose holder a response told to drop the cookie
  hits,           \* the limiter's store: IP -> requests counted in its window
  resetAt,        \* the limiter's store: IP -> end of that window, or NullTime
  seen,           \* history: IP -> requests the application received in the
                  \* 15 minutes that began at seenFrom
  seenFrom        \* history: IP -> time of the first of those requests, or NullTime

vars == <<now, advances, logins, users, loginAttempts, pending, cookie, issuedAt, resp,
          fails, lastFail, tasks, nextId, statsPending, statsQuiet, nextUserId,
          signing, resetting, nextReset, mail, cleared, hits, resetAt, seen,
          seenFrom>>

loginVars == <<logins, users, loginAttempts, pending, cookie, issuedAt, fails,
               lastFail>>
taskVars == <<tasks, nextId, statsPending, statsQuiet>>
accountVars == <<nextUserId, signing, resetting, nextReset, mail, cleared>>
limiterVars == <<hits, resetAt, seen, seenFrom>>

----------------------------------------------------------------------------
(* Bounds of the model *)

MaxAdvances == 2
MaxPending == 2
MaxLogins == 6
MaxSessionLogins == 2
MaxTasks == 2
MaxQueryTasks == 3
MaxSignups == 3
MaxResetTokens == 2

----------------------------------------------------------------------------
(* Program constants *)

\* loginAttempts[email].count >= 5
LOCK_THRESHOLD == 5
\* 15 * 60 * 1000
LOCK_MS == 900000
\* expiresIn: "2h", in seconds (jsonwebtoken keeps iat and exp in seconds)
TOKEN_S == 7200
\* Math.floor(Date.now() / 1000) in jsonwebtoken
MS_PER_S == 1000
\* resetPasswordExpires = Date.now() + 3600000
RESET_MS == 3600000
\* .{8,} in signup's passwordRegex
MIN_PASSWORD == 8
\* age: min: [13, ...] in userSchema
MIN_AGE == 13

----------------------------------------------------------------------------
(* Values *)

\* Absent values.  Each is a record, so that it compares with the records it
\* stands in for; an optional number is a sequence of length 0 or 1.
NoUser == [none |-> "user"]          \* findOne found nothing
NoEntry == [none |-> "entry"]        \* loginAttempts[email] is undefined
NoToken == [none |-> "token"]        \* req.cookies.token is undefined
NoPayload == [none |-> "payload"]    \* jwt.verify threw / req.user is undefined
NullTime == << >>                    \* lockedUntil: null
NoErr == [none |-> "error"]          \* next(error) was not called

Registered == {"a@x.io", "b@x.io"}
IPs == {"10.0.0.1", "10.0.0.2"}      \* req.ip of the clients
Emails == Registered \cup {"c@x.io"}
Passwords == {"Passwd-a", "Passwd-b"}
JWT_SECRET == "server-secret"
OtherKey == "other-key"

\* bcrypt.hash / bcrypt.compare: the hash is one-way, compare accepts exactly
\* the plaintext that was hashed.
BcryptHash(p) == [hashOf |-> p]
BcryptCompare(p, h) == h.hashOf = p

\* The User collection the process starts with (the database outlives the
\* process; loginAttempts does not).
\* A user document: _id, email, password (the hash), resetPasswordToken and
\* resetPasswordExpires (<< >>: undefined)
UserDoc(id, email, hash) ==
  [id |-> id, email |-> email, password |-> hash,
   resetPasswordToken |-> << >>, resetPasswordExpires |-> << >>]

InitUsers ==
  { UserDoc(1, "a@x.io", BcryptHash("Passwd-a")), UserDoc(2, "b@x.io", BcryptHash("Passwd-b")) }

\* The document of a user the process starts with
InitUser(e) == CHOOSE u \in InitUsers : u.email = e

\* User.findOne({ email })
FindUser(email) ==
  IF \E u \in users : u.email = email
    THEN CHOOSE u \in users : u.email = email
    ELSE NoUser

----------------------------------------------------------------------------
(* Signed tokens (jsonwebtoken) *)

NowSec(t) == t \div MS_PER_S

\* jwt.sign({userId, email}, secret, {expiresIn: "2h"}) at time t
JwtSign(user, key, t) ==
  LET payload == [userId |-> user.id, email |-> user.email,
                  iat |-> NowSec(t), exp |-> NowSec(t) + TOKEN_S]
  IN [payload |-> payload, mac |-> [key |-> key, payload |-> payload]]

\* Mutant of JwtVerify: a token whose cookie the server has cleared is refused
JwtVerify_Revocable(token, key, t) ==
  IF token.mac # [key |-> key, payload |-> token.payload] THEN NoPayload
  ELSE IF NowSec(t) >= token.payload.exp THEN NoPayload
  ELSE IF token \in cleared THEN NoPayload
  ELSE token.payload

\* Mutant of JwtVerify: the expiry is not looked at
JwtVerify_NoExpiry(token, key, t) ==
  IF token.mac # [key |-> key, payload |-> token.payload] THEN NoPayload
  ELSE token.payload

\* jwt.verify(token, secret) at time t: the decoded payload, or NoPayload when it throws
JwtVerify(token, key, t) ==
  IF token.mac # [key |-> key, payload |-> token.payload] THEN NoPayload
  ELSE IF NowSec(t) >= token.payload.exp THEN NoPayload
  ELSE token.payload

----------------------------------------------------------------------------
(* Login throttle (userController.login) *)

\* if (!loginAttempts[email]) loginAttempts[email] = { count: 0, lockedUntil: null }
EnsureEntry(la, email) ==
  IF la[email] = NoEntry
    THEN [la EXCEPT ![email] = [count |-> 0, lockedUntil |-> NullTime]]
    ELSE la

\* Mutant of IsLocked: >= in place of >
IsLocked_NonStrict(entry, t) ==
  /\ entry # NoEntry
  /\ entry.lockedUntil # NullTime
  /\ entry.lockedUntil[1] >= t

\* loginAttempts[email].lockedUntil && loginAttempts[email].lockedUntil > Date.now()
IsLocked(entry, t) ==
  /\ entry # NoEntry
  /\ entry.lockedUntil # NullTime
  /\ entry.lockedUntil[1] > t

\* Mutant of RecordFailure: the increment is lost (the counter is written
\* back as it was read)
RecordFailure_LostIncrement(entry, t) ==
  LET c == entry.count
  IN [count |-> c,
      lockedUntil |-> IF c >= LOCK_THRESHOLD THEN <<t + LOCK_MS>> ELSE entry.lockedUntil]

\* Mutant of RecordFailure: setting the lock starts a fresh budget
RecordFailure_ResetOnLock(entry, t) ==
  LET c == entry.count + 1
  IN [count |-> IF c >= LOCK_THRESHOLD THEN 0 ELSE c,
      lockedUntil |-> IF c >= LOCK_THRESHOLD THEN <<t + LOCK_MS>> ELSE entry.lockedUntil]

\* Mutant of RecordFailure: > in place of >=
RecordFailure_LockAfterSix(entry, t) ==
  LET c == entry.count + 1
  IN [count |-> c,
      lockedUntil |-> IF c > LOCK_THRESHOLD THEN <<t + LOCK_MS>> ELSE entry.lockedUntil]

\* count++ ; if (count >= 5) lockedUntil = Date.now() + 15 * 60 * 1000
RecordFailure(entry, t) ==
  LET c == entry.count + 1
  IN [count |-> c,
      lockedUntil |-> IF c >= LOCK_THRESHOLD THEN <<t + LOCK_MS>> ELSE entry.lockedUntil]

\* Mutant of RecordSuccess: the counter is left as it is
RecordSuccess_KeepCount(entry) == entry

\* loginAttempts[email].count = 0
RecordSuccess(entry) == [entry EXCEPT !.count = 0]

LoginReqs == Registered \X Passwords

\* the number of suspended requests among those of S
RECURSIVE SumPending(_)
SumPending(S) ==
  IF S = {} THEN 0
  ELSE LET r == CHOOSE x \in S : TRUE
       IN CopiesIn(r, pending) + SumPending(S \ {r})

\* the number of suspended login requests with this email and password
Pending(email, password) ==
  SumPending({r \in BagToSet(pending) : r.email = email /\ r.password = password})

\* req.query of GET /tasks ("" and << >>: parameter absent)
Query(status, fromDate, toDate, order, title) ==
  [status |-> status, fromDate |-> fromDate, toDate |-> toDate,
   order |-> order, title |-> title]
NoFilter == Query("", "", "", "", << >>)

\* What a request was answered with: the handler (op), the request's email,
\* password, method and token, the status sent (0: none sent), the userId in
\* the body, req.user as the middleware left it, whether next() was called,
\* for the task routes the :id, the query, and the documents (or the groups)
\* and total of the body, and for a response errorHandler sent the error it
\* was given and the message of the body.
NoResponse ==
  [op |-> "none", email |-> "", pw |-> "", status |-> 0, userId |-> 0,
   token |-> NoToken, user |-> NoPayload, next |-> FALSE, method |-> "",
   id |-> 0, query |-> NoFilter, body |-> << >>, total |-> 0,
   err |-> NoErr, message |-> "", ip |-> "", path |-> "", by |-> ""]

Response(op, email, pw, status, userId, token) ==
  [NoResponse EXCEPT !.op = op, !.email = email, !.pw = pw, !.status = status,
                     !.userId = userId, !.token = token, !.method = "POST"]

\* the number of login requests suspended at the await
InFlight == SumPending(BagToSet(pending))

\* login up to `await bcrypt.compare`: body check, User.findOne, entry creation,
\* lock check.  "" is a missing field.
LoginBegin(email, password) ==
  /\ UNCHANGED <<now, advances, limiterVars, accountVars, users, cookie, issuedAt, fails,
                 lastFail, taskVars>>
  /\ IF email = "" \/ password = ""
       THEN /\ resp' = Response("login", email, password, 400, 0, NoToken)
            /\ UNCHANGED <<loginAttempts, pending, logins>>
     ELSE IF FindUser(email) = NoUser
       THEN /\ resp' = Response("login", email, password, 401, 0, NoToken)
            /\ UNCHANGED <<loginAttempts, pending, logins>>
     ELSE /\ loginAttempts' = EnsureEntry(loginAttempts, email)
          /\ IF IsLocked(loginAttempts'[email], now)
               THEN /\ resp' = Response("login", email, password, 423, 0, NoToken)
                    /\ UNCHANGED <<pending, logins>>
               ELSE /\ InFlight < MaxPending
                    /\ logins < MaxLogins
                    /\ logins' = logins + 1
                    /\ pending' = pending (+) SetToBag({[email |-> email,
                                                         password |-> password,
                                                         user |-> FindUser(email)]})
                    /\ resp' = Response("login-await", email, password, 0, 0, NoToken)

\* login after `await bcrypt.compare`, for a suspended request r; `user` is
\* the document the request read before the await
LoginResume(r) ==
  /\ pending' = pending (-) SetToBag({r})
  /\ UNCHANGED <<now, advances, limiterVars, accountVars, logins, users, taskVars>>
  /\ IF ~BcryptCompare(r.password, r.user.password)
       THEN /\ loginAttempts' =
                 [loginAttempts EXCEPT ![r.email] = RecordFailure(@, now)]
            /\ resp' = Response("login", r.email, r.password, 401, 0, NoToken)
            /\ fails' = [fails EXCEPT ![r.email] = @ + 1]
            /\ lastFail' = [lastFail EXCEPT ![r.email] =
                              IF fails'[r.email] >= LOCK_THRESHOLD THEN <<now>> ELSE @]
            /\ UNCHANGED <<cookie, issuedAt>>
       ELSE /\ loginAttempts' =
                 [loginAttempts EXCEPT ![r.email] = RecordSuccess(@)]
            /\ cookie' = JwtSign(r.user, JWT_SECRET, now)
            /\ issuedAt' = now
            /\ resp' = Response("login", r.email, r.password, 200, r.user.id, cookie')
            /\ fails' = [fails EXCEPT ![r.email] = 0]
            /\ lastFail' = [lastFail EXCEPT ![r.email] = NullTime]

\* login after `await bcrypt.compare`, for some suspended request with this
\* email and password
LoginFinish(email, password) ==
  \E r \in BagToSet(pending) :
     r.email = email /\ r.password = password /\ LoginResume(r)

----------------------------------------------------------------------------
(* The clock *)

\* Advances of the clock that reach both sides of the lock's end
LockDeltas == {1, LOCK_MS - 1}

Tick(d) ==
  /\ advances < MaxAdvances
  /\ advances' = advances + 1
  /\ now' = now + d
  /\ UNCHANGED <<logins, users, loginAttempts, pending, cookie, issuedAt, resp,
                 fails, lastFail, tasks, nextId, statsPending, statsQuiet,
                 accountVars, limiterVars>>

----------------------------------------------------------------------------
(* Specification of the authentication slice *)

Init ==
  /\ now = 0
  /\ advances = 0
  /\ logins = 0
  /\ users = InitUsers
  /\ loginAttempts = [e \in Emails |-> NoEntry]
  /\ pending = EmptyBag
  /\ cookie = NoToken
  /\ issuedAt = 0
  /\ resp = NoResponse
  /\ fails = [e \in Emails |-> 0]
  /\ lastFail = [e \in Emails |-> NullTime]
  /\ tasks = {}
  /\ nextId = 1
  /\ statsPending = << >>
  /\ statsQuiet = FALSE
  /\ nextUserId = Cardinality(InitUsers) + 1
  /\ signing = EmptyBag
  /\ resetting = EmptyBag
  /\ nextReset = 1
  /\ mail = {}
  /\ cleared = {}
  /\ hits = [ip \in IPs |-> 0]
  /\ resetAt = [ip \in IPs |-> NullTime]
  /\ seen = [ip \in IPs |-> 0]
  /\ seenFrom = [ip \in IPs |-> NullTime]

Next ==
  \/ \E e \in Emails \cup {""}, p \in Passwords \cup {""} : LoginBegin(e, p)
  \/ \E r \in LoginReqs : LoginFinish(r[1], r[2])
  \/ \E d \in LockDeltas : Tick(d)

Spec == Init /\ [][Next]_vars

----------------------------------------------------------------------------
(* Auth middleware (middleware/auth.js) and session check *)

Methods == {"GET", "POST", "PUT", "DELETE", "OPTIONS"}

\* Mutant of AuthMiddleware: the catch branch sends 401 and still calls next()
AuthMiddleware_NextOnError(method, token, t) ==
  IF method = "OPTIONS"
    THEN [status |-> 0, user |-> NoPayload, next |-> TRUE]
  ELSE IF token = NoToken
    THEN [status |-> 401, user |-> NoPayload, next |-> FALSE]
  ELSE LET decoded == JwtVerify(token, JWT_SECRET, t)
       IN IF decoded = NoPayload
            THEN [status |-> 401, user |-> NoPayload, next |-> TRUE]
            ELSE [status |-> 0, user |-> decoded, next |-> TRUE]

\* Mutant of AuthMiddleware: no pre-flight branch
AuthMiddleware_NoPreflight(method, token, t) ==
  IF token = NoToken
    THEN [status |-> 401, user |-> NoPayload, next |-> FALSE]
  ELSE LET decoded == JwtVerify(token, JWT_SECRET, t)
       IN IF decoded = NoPayload
            THEN [status |-> 401, user |-> NoPayload, next |-> FALSE]
            ELSE [status |-> 0, user |-> decoded, next |-> TRUE]

\* authMiddleware(req, res, next) at time t: the status it sends (0: none),
\* req.user afterwards, and whether it calls next()
AuthMiddleware(method, token, t) ==
  IF method = "OPTIONS"
    THEN [status |-> 0, user |-> NoPayload, next |-> TRUE]
  ELSE IF token = NoToken
    THEN [status |-> 401, user |-> NoPayload, next |-> FALSE]
  ELSE LET decoded == JwtVerify(token, JWT_SECRET, t)
       IN IF decoded = NoPayload
            THEN [status |-> 401, user |-> NoPayload, next |-> FALSE]
            ELSE [status |-> 0, user |-> decoded, next |-> TRUE]

\* exports.session at time t: the status and the `user` of the body
\* (NoPayload with loggedIn: false)
Session(token, t) ==
  IF token = NoToken
    THEN [status |-> 401, user |-> NoPayload]
  ELSE LET decoded == JwtVerify(token, JWT_SECRET, t)
       IN IF decoded = NoPayload
            THEN [status |-> 401, user |-> NoPayload]
            ELSE [status |-> 200, user |-> decoded]

\* Tokens a client can build from a token it holds without the server's
\* secret: the payload altered under the old signature, or a payload signed
\* with another key.
Tampered(tok) ==
  { [tok EXCEPT !.payload.exp = @ + TOKEN_S],
    [tok EXCEPT !.payload.userId = 3 - @] }
Forged(t) ==
  { JwtSign(InitUser(e), OtherKey, t) : e \in Registered }

\* The tokens a request may carry
TokenInputs ==
  {NoToken} \cup Forged(now)
     \cup (IF cookie = NoToken THEN {} ELSE {cookie} \cup Tampered(cookie))

\* A request to a route behind authMiddleware; the route's handler is next()
AuthRequest(method, token) ==
  /\ LET out == AuthMiddleware(method, token, now)
     IN resp' = [NoResponse EXCEPT !.op = "auth", !.method = method,
                                   !.token = token, !.status = out.status,
                                   !.user = out.user, !.next = out.next]
  /\ UNCHANGED <<now, advances, limiterVars, accountVars, loginVars, taskVars>>

\* GET /session
SessionCheck(token) ==
  /\ LET out == Session(token, now)
     IN resp' = [NoResponse EXCEPT !.op = "session", !.method = "GET",
                                   !.token = token, !.status = out.status,
                                   !.user = out.user]
  /\ UNCHANGED <<now, advances, limiterVars, accountVars, loginVars, taskVars>>

\* Advances of the clock that reach both sides of a token's expiry
TokenDeltas == {1, TOKEN_S * MS_PER_S - 1}

NextSession ==
  \/ \E e \in Registered, p \in Passwords :
        logins < MaxSessionLogins /\ LoginBegin(e, p)
  \/ \E r \in LoginReqs : LoginFinish(r[1], r[2])
  \/ \E d \in TokenDeltas : Tick(d)
  \/ \E m \in Methods, tok \in TokenInputs : AuthRequest(m, tok)
  \/ \E tok \in TokenInputs : SessionCheck(tok)

SpecSession == Init /\ [][NextSession]_vars

----------------------------------------------------------------------------
(* Error handler (middleware/errorHandler.js) *)

\* An error passed to next(): its name, its statusCode (0: unset) and code
Err(name, statusCode) ==
  [name |-> name, statusCode |-> statusCode, code |-> 0, message |-> "detail"]

\* A duplicate-key error of the store (E11000)
DuplicateKey == [Err("MongoServerError", 0) EXCEPT !.code = 11000]

\* The status errorHandler answers an error with
ErrorHandler(err) ==
  IF err.name = "ValidationError" THEN 400
  ELSE IF err.code = 11000 THEN 409
  ELSE IF err.name = "JsonWebTokenError" THEN 401
  ELSE IF err.name = "TokenExpiredError" THEN 401
  ELSE IF err.statusCode # 0 THEN err.statusCode
  ELSE 500

\* The fallback text of the generic branch
GENERIC_MESSAGE == "Error interno en el servidor, por favor intente nuevamente más tarde"

\* The `message` of the body errorHandler sends
ErrorMessage(err) ==
  IF err.name = "ValidationError" THEN "Error de validación"
  ELSE IF err.code = 11000 THEN "Error de duplicado"
  ELSE IF err.name = "JsonWebTokenError" THEN "Token inválido"
  ELSE IF err.name = "TokenExpiredError"
    THEN "Token expirado, por favor inicia sesión nuevamente"
  ELSE IF err.message # "" THEN err.message
  ELSE GENERIC_MESSAGE

----------------------------------------------------------------------------
(* Dates and task documents (taskModel, taskController) *)

NaN == << >>                 \* an Invalid Date; a valid one is <<ms>>

\* new Date(str) for the date-time strings of the model, read in a zone at
\* UTC; any other string gives an Invalid Date
ParseDate(str) ==
  CASE str = "1970-01-01T00:00" -> <<0>>
    [] str = "1970-01-01T00:01" -> <<60000>>
    [] OTHER -> NaN

\* Mutant of DateBefore: <= in place of <
DateBefore_OrEqual(a, b) == a # NaN /\ b # NaN /\ a[1] <= b[1]

\* a < b on Dates: false when either is invalid
DateBefore(a, b) == a # NaN /\ b # NaN /\ a[1] < b[1]

\* dueDate < new Date()
DueInPast(dueDate, t) == DateBefore(dueDate, <<t>>)

Statuses == {"todo", "in-progress", "done"}

\* taskSchema's validation of a document (required paths, the Date cast, the
\* status enum)
SchemaValid(doc) ==
  /\ doc.title # << >>
  /\ doc.date # ""
  /\ doc.time # ""
  /\ doc.dueDate # NaN
  /\ doc.status \in Statuses

\* Titles are sequences of characters, for the $regex filter
Lower(c) == CASE c = "A" -> "a" [] c = "B" -> "b" [] OTHER -> c
LowerSeq(w) == [i \in 1..Len(w) |-> Lower(w[i])]

\* { $regex: q, $options: "i" } on a title, for a q of plain letters: q occurs
\* in the title, letter case ignored
RegexMatchI(title, q) ==
  \E i \in 0..(Len(title) - Len(q)) :
     SubSeq(LowerSeq(title), i + 1, i + Len(q)) = LowerSeq(q)

\* createTaskValidation: the express-validator chain of POST /tasks
CreateTaskValidation(b) ==
  /\ b.title # << >> /\ Len(b.title) <= 100
  /\ b.date \in {"1970-01-01", "1970-01-01T00:00Z"}     \* notEmpty, isISO8601
  /\ b.time \in {"00:00", "00:01"}                      \* notEmpty, HH:mm
  /\ b.status = "" \/ b.status \in Statuses             \* optional, isIn

\* validateRequest: answers 400 when the chain found an error, else next()
ValidateRequest(ok) == IF ok THEN 0 ELSE 400

\* Mutant of FindOne: the filter holds the task id alone
FindOne_ByIdOnly(id, userId) == {t \in tasks : t.id = id}

\* Task.findOne({ _id: id, userId })
FindOne(id, userId) == {t \in tasks : t.id = id /\ t.userId = userId}

\* Mutant of OwnedBy: the owner is not part of the filter
OwnedBy_Anyone(userId) == tasks

\* Task.find({ userId }) / Task.countDocuments({ userId }) / $match: { userId }
OwnedBy(userId) == {t \in tasks : t.userId = userId}

TaskResponse(op, method, tok, mw, status, id, body) ==
  [NoResponse EXCEPT !.op = op, !.method = method, !.token = tok,
                     !.user = mw.user, !.next = mw.next, !.status = status,
                     !.userId = IF mw.next THEN mw.user.userId ELSE 0,
                     !.id = id, !.body = body]

\* POST /tasks: authMiddleware, createTaskValidation, validateRequest, createTask.
\* A title, date, time or status of "" (<< >> for a title) is a missing field.
CreateTask(tok, b) ==
  LET mw == AuthMiddleware("POST", tok, now)
      dueDate == ParseDate(b.date \o "T" \o b.time)
      newTask == [id |-> nextId, userId |-> mw.user.userId, title |-> b.title,
                  date |-> b.date, time |-> b.time, dueDate |-> dueDate,
                  status |-> b.status]
      status ==
        IF ~mw.next THEN mw.status
        ELSE IF ValidateRequest(CreateTaskValidation(b)) # 0
          THEN ValidateRequest(CreateTaskValidation(b))
        ELSE IF b.title = << >> \/ b.date = "" \/ b.time = "" \/ b.status = ""
          THEN ErrorHandler(Err("Error", 400))
        ELSE IF DueInPast(dueDate, now)
          THEN ErrorHandler(Err("Error", 400))
        ELSE IF ~SchemaValid(newTask)
          THEN ErrorHandler(Err("ValidationError", 0))
        ELSE 201
  IN /\ IF status = 201
          THEN /\ tasks' = tasks \cup {newTask}
               /\ nextId' = nextId + 1
               /\ statsQuiet' = FALSE
               /\ resp' = TaskResponse("create", "POST", tok, mw, 201, nextId,
                                       <<newTask>>)
          ELSE /\ UNCHANGED <<tasks, nextId, statsQuiet>>
               /\ resp' = TaskResponse("create", "POST", tok, mw, status, 0, << >>)
     /\ UNCHANGED <<now, advances, limiterVars, accountVars, loginVars, statsPending>>

\* PUT /tasks/:id: authMiddleware, updateTask
UpdateTask(tok, id, b) ==
  LET mw == AuthMiddleware("PUT", tok, now)
      dueDate == ParseDate(b.date \o "T" \o b.time)
      found == FindOne(id, mw.user.userId)
      status ==
        IF ~mw.next THEN mw.status
        ELSE IF DueInPast(dueDate, now)
          THEN ErrorHandler(Err("Error", 400))
        ELSE IF dueDate = NaN
          THEN ErrorHandler(Err("CastError", 0))
        ELSE IF b.status \notin Statuses
          THEN ErrorHandler(Err("ValidationError", 0))
        ELSE IF found = {}
          THEN ErrorHandler(Err("Error", 404))
        ELSE 200
  IN /\ IF status = 200
          THEN LET old == CHOOSE t \in found : TRUE
                   task == [old EXCEPT !.title = b.title, !.date = b.date,
                                       !.time = b.time, !.dueDate = dueDate,
                                       !.status = b.status]
               IN /\ tasks' = (tasks \ {old}) \cup {task}
                  /\ statsQuiet' = FALSE
                  /\ resp' = TaskResponse("update", "PUT", tok, mw, 200, id, <<task>>)
          ELSE /\ UNCHANGED <<tasks, statsQuiet>>
               /\ resp' = TaskResponse("update", "PUT", tok, mw, status, id, << >>)
     /\ UNCHANGED <<now, advances, limiterVars, accountVars, loginVars, nextId, statsPending>>

\* DELETE /tasks/:id: authMiddleware, deleteTask
DeleteTask(tok, id) ==
  LET mw == AuthMiddleware("DELETE", tok, now)
      found == FindOne(id, mw.user.userId)
  IN /\ IF ~mw.next
          THEN /\ UNCHANGED <<tasks, statsQuiet>>
               /\ resp' = TaskResponse("delete", "DELETE", tok, mw, mw.status, id, << >>)
        ELSE IF found = {}
          THEN /\ UNCHANGED <<tasks, statsQuiet>>
               /\ resp' = TaskResponse("delete", "DELETE", tok, mw,
                                       ErrorHandler(Err("Error", 404)), id, << >>)
          ELSE /\ tasks' = tasks \ found
               /\ statsQuiet' = FALSE
               /\ resp' = TaskResponse("delete", "DELETE", tok, mw, 200, id, << >>)
     /\ UNCHANGED <<now, advances, limiterVars, accountVars, loginVars, nextId, statsPending>>

\* GET /tasks/:id: authMiddleware, getTaskById
GetTaskById(tok, id) ==
  LET mw == AuthMiddleware("GET", tok, now)
      found == FindOne(id, mw.user.userId)
  IN /\ IF ~mw.next
          THEN resp' = TaskResponse("get", "GET", tok, mw, mw.status, id, << >>)
        ELSE IF found = {}
          THEN resp' = TaskResponse("get", "GET", tok, mw,
                                    ErrorHandler(Err("Error", 404)), id, << >>)
          ELSE resp' = TaskResponse("get", "GET", tok, mw, 200, id,
                                    <<CHOOSE t \in found : TRUE>>)
     /\ UNCHANGED <<now, advances, limiterVars, accountVars, loginVars, taskVars>>

\* The arrangements of the documents of S in a result
Arrangements(S) ==
  {q \in [1..Cardinality(S) -> S] :
     \A i, j \in 1..Cardinality(S) : i # j => q[i] # q[j]}

\* Mutant of ListFilter: $gt in place of $gte
ListFilter_ExclusiveFrom(t, userId, q) ==
  /\ t \in OwnedBy(userId)
  /\ q.status # "" => t.status = q.status
  /\ q.fromDate # "" => DateBefore(ParseDate(q.fromDate), t.dueDate)
  /\ q.toDate # "" => ~DateBefore(ParseDate(q.toDate), t.dueDate)
  /\ q.title # << >> => RegexMatchI(t.title, q.title)

\* The filter getUserTasks builds from req.query ("" and << >>: parameter absent)
ListFilter(t, userId, q) ==
  /\ t \in OwnedBy(userId)
  /\ q.status # "" => t.status = q.status
  /\ q.fromDate # "" => ~DateBefore(t.dueDate, ParseDate(q.fromDate))
  /\ q.toDate # "" => ~DateBefore(ParseDate(q.toDate), t.dueDate)
  /\ q.title # << >> => RegexMatchI(t.title, q.title)

\* order === "desc" ? -1 : 1
SortOrder(order) == IF order = "desc" THEN 0 - 1 ELSE 1

\* .sort({ dueDate: dir }): a before b
DueBefore(dir, a, b) ==
  IF dir = 1 THEN DateBefore(a.dueDate, b.dueDate)
             ELSE DateBefore(b.dueDate, a.dueDate)

\* Task.find(filter).sort({ dueDate: dir }): the orders the sort can return,
\* those in which no document comes before one the sort puts first (the
\* order among equal due dates is the store's)
SortedByDue(S, dir) ==
  {q \in Arrangements(S) :
     \A i, j \in 1..Len(q) : i < j => ~DueBefore(dir, q[j], q[i])}

\* GET /tasks: authMiddleware, getUserTasks.  A date bound that does not parse
\* fails the query's cast (CastError).
GetUserTasks(tok, q) ==
  LET mw == AuthMiddleware("GET", tok, now)
      badDate == \/ q.fromDate # "" /\ ParseDate(q.fromDate) = NaN
                 \/ q.toDate # "" /\ ParseDate(q.toDate) = NaN
      matching == {t \in tasks : ListFilter(t, mw.user.userId, q)}
      dir == SortOrder(q.order)
  IN /\ IF ~mw.next
          THEN resp' = TaskResponse("list", "GET", tok, mw, mw.status, 0, << >>)
        ELSE IF badDate
          THEN resp' = [TaskResponse("list", "GET", tok, mw,
                                     ErrorHandler(Err("CastError", 0)), 0, << >>)
                          EXCEPT !.query = q]
          ELSE \E found \in SortedByDue(matching, dir) :
                 resp' = [TaskResponse("list", "GET", tok, mw, 200, 0, found)
                            EXCEPT !.query = q]
     /\ UNCHANGED <<now, advances, limiterVars, accountVars, loginVars, taskVars>>

\* $group: { _id: { $ifNull: ["$status", "sin-estado"] }, count: { $sum: 1 } }
GroupKey(t) == IF t.status = "" THEN "sin-estado" ELSE t.status
Groups(S) ==
  {[status |-> k, count |-> Cardinality({t \in S : GroupKey(t) = k})] :
     k \in {GroupKey(t) : t \in S}}

\* Mutant of CountBefore: ascending
CountBefore_Ascending(a, b) == a.count < b.count

\* $sort: { count: -1 }: a before b
CountBefore(a, b) == a.count > b.count

\* The orders the $sort stage can return
SortedByCount(S) ==
  {q \in Arrangements(S) :
     \A i, j \in 1..Len(q) : i < j => ~CountBefore(q[j], q[i])}

\* GET /tasks/stats up to `await Task.countDocuments`: authMiddleware, then
\* the aggregation ($match, $group, $sort)
StatsBegin(tok) ==
  LET mw == AuthMiddleware("GET", tok, now)
  IN /\ statsPending = << >>
     /\ IF ~mw.next
          THEN /\ resp' = TaskResponse("stats", "GET", tok, mw, mw.status, 0, << >>)
               /\ UNCHANGED <<statsPending, statsQuiet>>
          ELSE /\ \E stats \in SortedByCount(Groups(OwnedBy(mw.user.userId))) :
                    statsPending' = <<[token |-> tok, mw |-> mw, stats |-> stats]>>
               /\ statsQuiet' = TRUE
               /\ resp' = TaskResponse("stats-await", "GET", tok, mw, 0, 0, << >>)
     /\ UNCHANGED <<now, advances, limiterVars, accountVars, loginVars, tasks, nextId>>

\* GET /tasks/stats after the aggregation: countDocuments and the response
StatsFinish ==
  /\ statsPending # << >>
  /\ LET p == statsPending[1]
         totalTasks == Cardinality(OwnedBy(p.mw.user.userId))
         byStatus == [i \in 1..Len(p.stats) |->
                        [status |-> p.stats[i].status, count |-> p.stats[i].count]]
     IN resp' = [TaskResponse("stats", "GET", p.token, p.mw, 200, 0, byStatus)
                   EXCEPT !.total = totalTasks]
  /\ statsPending' = << >>
  /\ UNCHANGED <<now, advances, limiterVars, accountVars, loginVars, tasks, nextId, statsQuiet>>

----------------------------------------------------------------------------
(* Specification of the task routes *)

\* The session cookies of the two users, as their logins at time 0 signed them
TokenOf(e) == JwtSign(InitUser(e), JWT_SECRET, 0)
TaskTokens == {NoToken} \cup {TokenOf(e) : e \in Registered}

\* Request bodies of POST /tasks and PUT /tasks/:id: the well-formed ones,
\* and ones with a missing title, a missing or unknown status, and a date
\* that is ISO 8601 but makes `${date}T${time}` unparsable
Body(title, date, time, status) ==
  [title |-> title, date |-> date, time |-> time, status |-> status]
GoodBodies ==
  { Body(<<"b">>, "1970-01-01", "00:00", "todo"),
    Body(<<"b">>, "1970-01-01", "00:01", "todo"),
    Body(<<"b">>, "1970-01-01", "00:01", "done") }
BadBodies ==
  { Body(<< >>, "1970-01-01", "00:01", "todo"),
    Body(<<"b">>, "1970-01-01", "00:01", ""),
    Body(<<"b">>, "1970-01-01", "00:01", "bogus"),
    Body(<<"b">>, "1970-01-01T00:00Z", "00:01", "todo") }
CreateBodies == GoodBodies \cup BadBodies
UpdateBodies ==
  GoodBodies \cup {b \in BadBodies : b.title # << >> /\ b.status # ""}

\* Advance of the clock to 1 second before, and then past, the later due
\* instant of the bodies
TaskDeltas == {59000}

\* The last response has been sent and read: the next request is taken up
Idle == resp = NoResponse
Deliver ==
  /\ ~Idle
  /\ resp' = NoResponse
  /\ UNCHANGED <<now, advances, limiterVars, accountVars, loginVars, taskVars>>

NextTasks ==
  \/ \E tok \in TaskTokens, b \in CreateBodies :
        Idle /\ nextId <= MaxTasks /\ CreateTask(tok, b)
  \/ \E tok \in TaskTokens, id \in 1..MaxTasks, b \in UpdateBodies :
        Idle /\ UpdateTask(tok, id, b)
  \/ \E tok \in TaskTokens, id \in 1..MaxTasks : Idle /\ DeleteTask(tok, id)
  \/ \E tok \in TaskTokens, id \in 1..MaxTasks : Idle /\ GetTaskById(tok, id)
  \/ \E tok \in TaskTokens, q \in {NoFilter, Query("done", "", "", "desc", << >>)} :
        Idle /\ GetUserTasks(tok, q)
  \/ \E tok \in TaskTokens : Idle /\ StatsBegin(tok)
  \/ Idle /\ StatsFinish
  \/ \E d \in TaskDeltas : Idle /\ Tick(d)
  \/ Deliver

SpecTasks == Init /\ [][NextTasks]_vars

----------------------------------------------------------------------------
(* Specification of the task queries: the store is filled at time 0, by one
   user with bodies that differ in title, due instant and status and by the
   other with one body, and read with every combination of the filters *)

Queries ==
  {Query(st, fr, to, ord, ti) :
     st \in {"", "done"},
     fr \in {"", "1970-01-01T00:01"},
     to \in {"", "1970-01-01T00:00"},
     ord \in {"", "desc"},
     ti \in {<< >>, <<"a">>}}
  \cup {Query("", "1970-01-01T00:00", "1970-01-01T00:01", "desc", <<"a">>),
        Query("", "yesterday", "", "", << >>)}

QueryCreates ==
  ({TokenOf("a@x.io")} \X
     { Body(<<"A", "b">>, "1970-01-01", "00:00", "todo"),
       Body(<<"b">>, "1970-01-01", "00:01", "todo"),
       Body(<<"A", "b">>, "1970-01-01", "00:01", "done"),
       Body(<<"b">>, "1970-01-01", "00:00", "done") })
    \cup {<<TokenOf("b@x.io"), Body(<<"A", "b">>, "1970-01-01", "00:01", "done")>>}

NextQuery ==
  \/ \E c \in QueryCreates :
        Idle /\ nextId <= MaxQueryTasks /\ CreateTask(c[1], c[2])
  \/ \E tok \in TaskTokens, id \in 1..MaxQueryTasks : Idle /\ DeleteTask(tok, id)
  \/ \E tok \in TaskTokens, q \in Queries : Idle /\ GetUserTasks(tok, q)
  \/ \E tok \in TaskTokens : Idle /\ StatsBegin(tok)
  \/ Idle /\ StatsFinish
  \/ Deliver

SpecQuery == Init /\ [][NextQuery]_vars

----------------------------------------------------------------------------
(* Accounts (userController.signup, forgotPassword, resetPassword,
   updateProfile, deleteProfile, logout; userModel) *)

\* The characters of the strings that requests carry as passwords and emails
Chars(str) ==
  CASE str = "Passwd-a" -> <<"P", "a", "s", "s", "w", "d", "-", "a">>
    [] str = "Passwd-b" -> <<"P", "a", "s", "s", "w", "d", "-", "b">>
    [] str = "Passwd-c" -> <<"P", "a", "s", "s", "w", "d", "-", "c">>
    [] str = "passwd-a" -> <<"p", "a", "s", "s", "w", "d", "-", "a">>
    [] str = "PASSWD_A" -> <<"P", "A", "S", "S", "W", "D", "_", "A">>
    [] str = "Passwd1a" -> <<"P", "a", "s", "s", "w", "d", "1", "a">>
    [] str = "Pw-a" -> <<"P", "w", "-", "a">>
    [] str = "a@x.io" -> <<"a", "@", "x", ".", "i", "o">>
    [] str = "b@x.io" -> <<"b", "@", "x", ".", "i", "o">>
    [] str = "c@x.io" -> <<"c", "@", "x", ".", "i", "o">>
    [] str = "c@x" -> <<"c", "@", "x">>
    [] OTHER -> << >>

LowerCase == {"a", "b", "c", "d", "i", "o", "p", "s", "w", "x"}
UpperCase == {"A", "D", "P", "S", "W"}
Digits == {"1"}

\* /^(?=.*[a-z])(?=.*[A-Z])(?=.*[\W_]).{8,}$/.test(password)
PasswordRegex(password) ==
  LET c == Chars(password)
  IN /\ \E i \in 1..Len(c) : c[i] \in LowerCase
     /\ \E i \in 1..Len(c) : c[i] \in UpperCase
     /\ \E i \in 1..Len(c) : c[i] \notin LowerCase \cup UpperCase \cup Digits
     /\ Len(c) >= MIN_PASSWORD

\* match: /^\S+@\S+\.\S+$/ of userSchema.email
EmailRegex(email) ==
  LET c == Chars(email)
  IN \E i, j \in 1..Len(c) :
        /\ c[i] = "@" /\ c[j] = "."
        /\ 1 < i /\ i + 1 < j /\ j < Len(c)

\* The validators of userSchema that a save or an update runs on age and
\* email.  The password path holds a bcrypt hash ("$2b$10$" and 53 characters
\* of [./A-Za-z0-9]), which its validators accept.
UserSchemaValid(age, email) == age >= MIN_AGE /\ EmailRegex(email)

\* The unique index on email refuses a document whose email another document
\* (one with another _id) holds
EmailTaken(email, id) == \E u \in users : u.email = email /\ u.id # id

AccountResponse(op, email, pw, status, userId, err) ==
  [Response(op, email, pw, status, userId, NoToken) EXCEPT !.err = err]

\* signup up to `await User.findOne`'s result: required fields ("" and 0:
\* absent), password policy, existence check
SignupBegin(email, password, age) ==
  /\ UNCHANGED <<now, advances, limiterVars, loginVars, taskVars, nextUserId, resetting,
                 nextReset, mail, cleared>>
  /\ IF email = "" \/ password = "" \/ age = 0
       THEN /\ resp' = AccountResponse("signup", email, password, 400, 0, NoErr)
            /\ UNCHANGED signing
     ELSE IF ~PasswordRegex(password)
       THEN /\ resp' = AccountResponse("signup", email, password, 400, 0, NoErr)
            /\ UNCHANGED signing
     ELSE IF FindUser(email) # NoUser
       THEN /\ resp' = AccountResponse("signup", email, password, 409, 0, NoErr)
            /\ UNCHANGED signing
     ELSE /\ BagCardinality(signing) < MaxPending
          /\ nextUserId - Cardinality(InitUsers) + BagCardinality(signing) <= MaxSignups
          /\ signing' = signing (+) SetToBag({[email |-> email,
                                               password |-> password,
                                               age |-> age]})
          /\ resp' = AccountResponse("signup-await", email, password, 0, 0, NoErr)

\* Mutant of SignupSave: the collection has no unique index on email
SignupSave_NoIndex(r) ==
  /\ signing' = signing (-) SetToBag({r})
  /\ UNCHANGED <<now, advances, limiterVars, logins, loginAttempts, pending, cookie, issuedAt,
                 fails, lastFail, taskVars, resetting, nextReset, mail, cleared>>
  /\ IF ~UserSchemaValid(r.age, r.email)
       THEN /\ resp' = AccountResponse("signup", r.email, r.password,
                                       ErrorHandler(Err("ValidationError", 0)), 0,
                                       Err("ValidationError", 0))
            /\ UNCHANGED <<users, nextUserId>>
       ELSE /\ users' = users \cup {UserDoc(nextUserId, r.email, BcryptHash(r.password))}
            /\ nextUserId' = nextUserId + 1
            /\ resp' = AccountResponse("signup", r.email, r.password, 201,
                                       nextUserId, NoErr)

\* signup from `await bcrypt.hash` on, for a suspended request r: new User,
\* user.save() (validation, then the insert under the unique index), 201
SignupSave(r) ==
  /\ signing' = signing (-) SetToBag({r})
  /\ UNCHANGED <<now, advances, limiterVars, logins, loginAttempts, pending, cookie, issuedAt,
                 fails, lastFail, taskVars, resetting, nextReset, mail, cleared>>
  /\ IF ~UserSchemaValid(r.age, r.email)
       THEN /\ resp' = AccountResponse("signup", r.email, r.password,
                                       ErrorHandler(Err("ValidationError", 0)), 0,
                                       Err("ValidationError", 0))
            /\ UNCHANGED <<users, nextUserId>>
     ELSE IF EmailTaken(r.email, nextUserId)
       THEN /\ resp' = AccountResponse("signup", r.email, r.password,
                                       ErrorHandler(DuplicateKey), 0, DuplicateKey)
            /\ UNCHANGED <<users, nextUserId>>
       ELSE /\ users' = users \cup {UserDoc(nextUserId, r.email, BcryptHash(r.password))}
            /\ nextUserId' = nextUserId + 1
            /\ resp' = AccountResponse("signup", r.email, r.password, 201,
                                       nextUserId, NoErr)

SignupFinish == \E r \in BagToSet(signing) : SignupSave(r)

\* forgotPassword: findOne, a fresh token with its expiry saved on the user,
\* then sendEmail, which delivers the token or throws.  The handler's store
\* operations read and write this user's token fields only.
ForgotPassword(email, sent) ==
  /\ UNCHANGED <<now, advances, limiterVars, logins, loginAttempts, pending, cookie, issuedAt,
                 fails, lastFail, taskVars, nextUserId, signing, resetting, cleared>>
  /\ IF FindUser(email) = NoUser
       THEN /\ resp' = AccountResponse("forgot", email, "", 404, 0, NoErr)
            /\ UNCHANGED <<users, nextReset, mail>>
       ELSE /\ nextReset <= MaxResetTokens
            /\ LET user == FindUser(email)
               IN users' = (users \ {user}) \cup
                     {[user EXCEPT !.resetPasswordToken = <<nextReset>>,
                                   !.resetPasswordExpires = <<now + RESET_MS>>]}
            /\ nextReset' = nextReset + 1
            /\ IF sent
                 THEN /\ mail' = mail \cup {nextReset}
                      /\ resp' = AccountResponse("forgot", email, "", 200, 0, NoErr)
                 ELSE /\ mail' = mail
                      /\ resp' = AccountResponse("forgot", email, "",
                                                 ErrorHandler(Err("Error", 0)), 0,
                                                 Err("Error", 0))

\* User.findOne({ resetPasswordToken: token, resetPasswordExpires: { $gt: Date.now() } })
FindByResetToken(token, t) ==
  {u \in users : /\ u.resetPasswordToken = <<token>>
                 /\ u.resetPasswordExpires # << >>
                 /\ u.resetPasswordExpires[1] > t}

\* resetPassword up to `await bcrypt.hash`: findOne by token and expiry
ResetBegin(token, password) ==
  /\ UNCHANGED <<now, advances, limiterVars, loginVars, taskVars, nextUserId, signing,
                 nextReset, mail, cleared>>
  /\ IF FindByResetToken(token, now) = {}
       THEN /\ resp' = [AccountResponse("reset", "", password, 400, 0, NoErr)
                          EXCEPT !.id = token]
            /\ UNCHANGED resetting
       ELSE /\ BagCardinality(resetting) < MaxPending
            /\ \E user \in FindByResetToken(token, now) :
                  resetting' = resetting (+) SetToBag({[token |-> token,
                                                        password |-> password,
                                                        user |-> user]})
            /\ resp' = [AccountResponse("reset-await", "", password, 0, 0, NoErr)
                          EXCEPT !.id = token]

\* resetPassword from `await bcrypt.hash` on, for a suspended request r:
\* bcrypt.hash throws without a password; user.save() writes the password and
\* unsets the token and its expiry on the stored document with the user's
\* _id, and finds no document when the account was deleted meanwhile (the
\* answer is then 500 or, in a mongoose that does not report it, 200).
ResetSave(r) ==
  /\ resetting' = resetting (-) SetToBag({r})
  /\ UNCHANGED <<now, advances, limiterVars, logins, loginAttempts, pending, cookie, issuedAt,
                 fails, lastFail, taskVars, nextUserId, signing, nextReset, mail, cleared>>
  /\ IF r.password = ""
       THEN /\ resp' = [AccountResponse("reset", r.user.email, r.password,
                                        ErrorHandler(Err("Error", 0)), r.user.id,
                                        Err("Error", 0)) EXCEPT !.id = r.token]
            /\ UNCHANGED users
     ELSE IF ~\E u \in users : u.id = r.user.id
       THEN /\ \E status \in {200, ErrorHandler(Err("DocumentNotFoundError", 0))} :
                 resp' = [AccountResponse("reset", r.user.email, r.password, status,
                                          r.user.id, NoErr) EXCEPT !.id = r.token]
            /\ UNCHANGED users
       ELSE /\ LET stored == CHOOSE u \in users : u.id = r.user.id
               IN users' = (users \ {stored}) \cup
                     {[stored EXCEPT !.password = BcryptHash(r.password),
                                     !.resetPasswordToken = << >>,
                                     !.resetPasswordExpires = << >>]}
            /\ resp' = [AccountResponse("reset", r.user.email, r.password, 200,
                                        r.user.id, NoErr) EXCEPT !.id = r.token]

ResetFinish == \E r \in BagToSet(resetting) : ResetSave(r)

\* PUT /profile: authMiddleware, updateProfile.  fields is FALSE when one of
\* firstName, lastName, age is absent; "" is an absent email.
UpdateProfile(tok, email, fields) ==
  LET mw == AuthMiddleware("PUT", tok, now)
      op == [AccountResponse("profile", email, "", 0, 0, NoErr)
               EXCEPT !.token = tok, !.method = "PUT", !.user = mw.user,
                      !.next = mw.next]
  IN /\ UNCHANGED <<now, advances, limiterVars, logins, loginAttempts, pending, cookie, issuedAt,
                    fails, lastFail, taskVars, accountVars>>
     /\ IF ~mw.next
          THEN resp' = [op EXCEPT !.status = mw.status] /\ UNCHANGED users
        ELSE IF ~fields \/ email = ""
          THEN resp' = [op EXCEPT !.status = 400] /\ UNCHANGED users
        ELSE IF ~EmailRegex(email)
          THEN /\ resp' = [op EXCEPT !.status = ErrorHandler(Err("ValidationError", 0)),
                                     !.err = Err("ValidationError", 0)]
               /\ UNCHANGED users
        ELSE IF ~\E u \in users : u.id = mw.user.userId
          THEN resp' = [op EXCEPT !.status = 404] /\ UNCHANGED users
        ELSE IF EmailTaken(email, mw.user.userId)
          THEN /\ resp' = [op EXCEPT !.status = ErrorHandler(DuplicateKey),
                                     !.err = DuplicateKey]
               /\ UNCHANGED users
          ELSE /\ LET stored == CHOOSE u \in users : u.id = mw.user.userId
                  IN users' = (users \ {stored}) \cup {[stored EXCEPT !.email = email]}
               /\ resp' = [op EXCEPT !.status = 200, !.userId = mw.user.userId]

\* DELETE /profile: authMiddleware, deleteProfile (findById, bcrypt.compare,
\* findByIdAndDelete, clearCookie).  The tasks of the user are not touched.
DeleteProfile(tok, password) ==
  LET mw == AuthMiddleware("DELETE", tok, now)
      op == [AccountResponse("delete-profile", "", password, 0, 0, NoErr)
               EXCEPT !.token = tok, !.method = "DELETE", !.user = mw.user,
                      !.next = mw.next]
  IN /\ UNCHANGED <<now, advances, limiterVars, logins, loginAttempts, pending, cookie, issuedAt,
                    fails, lastFail, taskVars, nextUserId, signing, resetting,
                    nextReset, mail>>
     /\ IF ~mw.next
          THEN resp' = [op EXCEPT !.status = mw.status] /\ UNCHANGED <<users, cleared>>
        ELSE IF password = ""
          THEN resp' = [op EXCEPT !.status = 400] /\ UNCHANGED <<users, cleared>>
        ELSE IF ~\E u \in users : u.id = mw.user.userId
          THEN resp' = [op EXCEPT !.status = 404] /\ UNCHANGED <<users, cleared>>
        ELSE LET stored == CHOOSE u \in users : u.id = mw.user.userId
             IN IF ~BcryptCompare(password, stored.password)
                  THEN resp' = [op EXCEPT !.status = 401] /\ UNCHANGED <<users, cleared>>
                  ELSE /\ users' = users \ {stored}
                       /\ cleared' = cleared \cup {tok}
                       /\ resp' = [op EXCEPT !.status = 200, !.userId = stored.id]

\* POST /logout: authMiddleware, logout (clearCookie): the response tells the
\* browser to drop the cookie; nothing is recorded on the server.
Logout(tok) ==
  LET mw == AuthMiddleware("POST", tok, now)
  IN /\ resp' = [AccountResponse("logout", "", "",
                                 IF mw.next THEN 200 ELSE mw.status, 0, NoErr)
                   EXCEPT !.token = tok, !.user = mw.user, !.next = mw.next]
     /\ cleared' = IF mw.next THEN cleared \cup {tok} ELSE cleared
     /\ UNCHANGED <<now, advances, limiterVars, loginVars, taskVars, nextUserId, signing,
                    resetting, nextReset, mail>>

----------------------------------------------------------------------------
(* Specification of the account routes *)

SignupEmails == {"a@x.io", "c@x.io", "c@x", ""}
SignupPasswords == {"Passwd-c", "passwd-a", "PASSWD_A", "Passwd1a", "Pw-a", ""}
Ages == {0, MIN_AGE - 1, MIN_AGE}
ProfileEmails == {"a@x.io", "b@x.io", "c@x.io", "c@x", ""}

\* Signups and profile updates, at time 0
NextSignup ==
  \/ \E e \in SignupEmails, p \in SignupPasswords, age \in Ages :
        Idle /\ SignupBegin(e, p, age)
  \/ Idle /\ SignupFinish
  \/ \E tok \in TaskTokens, e \in ProfileEmails, fields \in BOOLEAN :
        Idle /\ UpdateProfile(tok, e, fields)
  \/ Deliver

SpecSignup == Init /\ [][NextSignup]_vars

ResetPasswords == {"Passwd-c", "Pw-a", ""}

\* The two paths that set a credential, at time 0
NextPolicy ==
  \/ \E e \in {"c@x.io", "b@x.io"}, p \in SignupPasswords :
        Idle /\ SignupBegin(e, p, MIN_AGE)
  \/ Idle /\ SignupFinish
  \/ \E e \in Emails, sent \in BOOLEAN : Idle /\ ForgotPassword(e, sent)
  \/ \E token \in mail \cup {0}, p \in ResetPasswords : Idle /\ ResetBegin(token, p)
  \/ Idle /\ ResetFinish
  \/ Deliver

SpecPolicy == Init /\ [][NextPolicy]_vars

\* Advances of the clock that reach both sides of a reset token's expiry
ResetDeltas == {1, RESET_MS - 1}

\* Password resets of one user over time
NextReset ==
  \/ \E e \in {"a@x.io", "c@x.io"}, sent \in BOOLEAN : Idle /\ ForgotPassword(e, sent)
  \/ \E token \in mail \cup {0}, p \in {"Pw-a", ""} : Idle /\ ResetBegin(token, p)
  \/ Idle /\ ResetFinish
  \/ \E d \in ResetDeltas : Idle /\ Tick(d)
  \/ Deliver

SpecReset == Init /\ [][NextReset]_vars

----------------------------------------------------------------------------
(* Specification of the error handler: any handler may pass it any error *)

ErrNames == {"ValidationError", "JsonWebTokenError", "TokenExpiredError",
             "CastError", "MongoServerError", "Error"}
ErrStatusCodes == {0, 400, 401, 404, 503}
ErrCodes == {0, 11000}
ErrMessages == {"", "detail"}

ErrInputs ==
  { [name |-> n, statusCode |-> sc, code |-> c, message |-> m] :
      n \in ErrNames, sc \in ErrStatusCodes, c \in ErrCodes, m \in ErrMessages }

\* errorHandler(err, req, res, next): with the headers already sent it leaves
\* the error to express (no response of its own); else it answers
HandleError(err, headersSent) ==
  /\ resp' = IF headersSent
               THEN [NoResponse EXCEPT !.op = "error", !.err = err]
               ELSE [NoResponse EXCEPT !.op = "error", !.err = err,
                                       !.status = ErrorHandler(err),
                                       !.message = ErrorMessage(err)]
  /\ UNCHANGED <<now, advances, limiterVars, accountVars, loginVars, taskVars>>

NextErrors ==
  \/ \E err \in ErrInputs, headersSent \in BOOLEAN : Idle /\ HandleError(err, headersSent)
  \/ Deliver

SpecErrors == Init /\ [][NextErrors]_vars

----------------------------------------------------------------------------
(* Properties of the login throttle, checked under Spec *)

RightPassword(e) == IF e = "a@x.io" THEN "Passwd-a" ELSE "Passwd-b"

\* C1 (statement): once an email has 5 or more consecutive wrong-password
\* failures and less than 15 minutes have passed since the last of them, a
\* further login for that email, with the right or a wrong password, is
\* answered 423 and is not handed to the credential comparison (nothing is
\* suspended at bcrypt.compare, the throttle entry and the cookie are untouched).
C1_LockedAfterFiveFailures ==
  [][\A e \in Registered, p \in Passwords :
       (/\ fails[e] >= LOCK_THRESHOLD
        /\ lastFail[e] # NullTime
        /\ now < lastFail[e][1] + LOCK_MS
        /\ LoginBegin(e, p))
       => (/\ resp'.op = "login"
           /\ resp'.status = 423
           /\ pending' = pending
           /\ loginAttempts' = loginAttempts
           /\ cookie' = cookie)]_vars

\* C1 (witness): the 6th attempt carried the right password, came 15 minutes
\* minus 1 ms after the 5th failure, and was answered 423.
C1_Witness ==
  /\ resp.op = "login"
  /\ resp.status = 423
  /\ resp.email = "a@x.io"
  /\ resp.pw = "Passwd-a"
  /\ fails["a@x.io"] = LOCK_THRESHOLD
  /\ lastFail["a@x.io"] # NullTime
  /\ now = lastFail["a@x.io"][1] + LOCK_MS - 1

\* C2 (statement): once the lock of an email has run out (lockedUntil is set
\* and now is not before it), a login with the valid password is let through
\* to the comparison, and when the comparison of a valid password completes
\* the answer is 200 with the user's id, the cookie holds a token of that user
\* that verifies, and the email's failure counter is exactly 0.
C2_ValidLoginAfterLockResets ==
  [][\A e \in Registered :
       /\ (/\ loginAttempts[e] # NoEntry
           /\ loginAttempts[e].lockedUntil # NullTime
           /\ ~(now < loginAttempts[e].lockedUntil[1])
           /\ LoginBegin(e, RightPassword(e)))
          => (/\ resp'.op = "login-await"
              /\ Pending(e, RightPassword(e))' = Pending(e, RightPassword(e)) + 1)
       /\ LoginFinish(e, RightPassword(e))
          => (/\ resp'.status = 200
              /\ resp'.userId = FindUser(e).id
              /\ resp'.token = cookie'
              /\ cookie' # NoToken
              /\ JwtVerify(cookie', JWT_SECRET, now) # NoPayload
              /\ cookie'.payload.email = e
              /\ loginAttempts'[e].count = 0)]_vars

\* C2 (witness): an email that had been locked (counter at 5 or more) logs in
\* at the very millisecond the lock ends, or later, and its counter is 0.
C2_Witness ==
  /\ resp.op = "login"
  /\ resp.status = 200
  /\ resp.email = "a@x.io"
  /\ loginAttempts["a@x.io"] # NoEntry
  /\ loginAttempts["a@x.io"].lockedUntil # NullTime
  /\ loginAttempts["a@x.io"].lockedUntil[1] <= issuedAt
  /\ loginAttempts["a@x.io"].count = 0
  /\ logins > LOCK_THRESHOLD
  /\ InFlight = 0

\* C3 (statement): a login for a registered email with both fields present is
\* answered 423 exactly when the email has a throttle entry whose lockedUntil
\* is set and strictly greater than the current time; otherwise (lockedUntil
\* unset, or equal to or before the current time) it goes on to the credential
\* comparison.
C3_LockedIffStrictlyBefore ==
  [][\A e \in Registered, p \in Passwords :
       LoginBegin(e, p)
       => LET locked == /\ loginAttempts[e] # NoEntry
                        /\ loginAttempts[e].lockedUntil # NullTime
                        /\ loginAttempts[e].lockedUntil[1] > now
          IN /\ (resp'.status = 423) <=> locked
             /\ ~locked => /\ resp'.op = "login-await"
                           /\ Pending(e, p)' = Pending(e, p) + 1]_vars

\* C3 (witness): a login arrives at the millisecond lockedUntil and is handed
\* to the comparison.
C3_Witness ==
  /\ resp.op = "login-await"
  /\ InFlight = 1
  /\ Pending(resp.email, resp.pw) = 1
  /\ loginAttempts[resp.email].lockedUntil = <<now>>

----------------------------------------------------------------------------
(* Properties of the auth middleware and of tokens, checked under SpecSession *)

TOKEN_MS == TOKEN_S * MS_PER_S

SignatureOk(tok) == tok.mac = [key |-> JWT_SECRET, payload |-> tok.payload]
Expired(tok, t) == t \div MS_PER_S >= tok.payload.exp

\* C4 (statement): a non-OPTIONS request through authMiddleware ends in one
\* of three ways: no token, 401 and next() not called; a token whose signature
\* is invalid or which has expired, the same 401 and next() not called; a
\* valid token, req.user is its payload {userId, email, exp} and next() is
\* called.  next() is never called without an attached verified identity.
C4_MiddlewareOutcomes ==
  [][\A m \in Methods \ {"OPTIONS"}, tok \in TokenInputs :
       AuthRequest(m, tok)
       => /\ tok = NoToken
               => resp'.status = 401 /\ ~resp'.next /\ resp'.user = NoPayload
          /\ (tok # NoToken /\ (~SignatureOk(tok) \/ Expired(tok, now)))
               => resp'.status = 401 /\ ~resp'.next /\ resp'.user = NoPayload
          /\ (tok # NoToken /\ SignatureOk(tok) /\ ~Expired(tok, now))
               => /\ resp'.next
                  /\ resp'.status = 0
                  /\ resp'.user = tok.payload
                  /\ {"userId", "email", "exp"} \subseteq DOMAIN resp'.user
          /\ resp'.next
               => /\ resp'.user # NoPayload
                  /\ tok = cookie
                  /\ resp'.user.userId = FindUser(resp'.user.email).id]_vars

\* C4 (witness): the cookie's token, expired, is refused on a GET.
C4_Witness ==
  /\ resp.op = "auth"
  /\ resp.method = "GET"
  /\ cookie # NoToken
  /\ resp.token = cookie
  /\ resp.status = 401
  /\ ~resp.next

\* C5 (statement): an OPTIONS request passes authMiddleware whatever token it
\* carries (none, valid, expired, tampered, forged): next() is called, no
\* identity is attached and no 401 is sent.
C5_PreflightPasses ==
  (resp.op = "auth" /\ resp.method = "OPTIONS")
    => (resp.next /\ resp.user = NoPayload /\ resp.status # 401)

\* C5 (witness): an OPTIONS request that carried a token which verifies.
C5_Witness ==
  /\ resp.op = "auth"
  /\ resp.method = "OPTIONS"
  /\ cookie # NoToken
  /\ resp.token = cookie
  /\ JwtVerify(cookie, JWT_SECRET, now) # NoPayload
  /\ resp.next

\* What a verification of the token answers: the middleware's req.user, or
\* the session check's user
Accepted(r, tok) == r.status # 401 /\ r.user = tok.payload
Rejected(r) == r.status = 401 /\ r.user = NoPayload /\ ~r.next

Verification(tok) ==
  \/ \E m \in Methods \ {"OPTIONS"} : AuthRequest(m, tok)
  \/ SessionCheck(tok)

\* C6 (original statement): the token of a login at time t carries the user's
\* id and email and the expiry t + 2h; verified at any time before t + 2h it
\* yields that id and email; verified after t + 2h, or with a signature not
\* made with the server's secret, it is refused.
C6_Original ==
  [][/\ \A e \in Registered :
          (LoginFinish(e, RightPassword(e)))
          => /\ cookie'.payload.userId = FindUser(e).id
             /\ cookie'.payload.email = e
     /\ (cookie # NoToken /\ Verification(cookie))
          => /\ now < issuedAt + TOKEN_MS => Accepted(resp', cookie)
             /\ now > issuedAt + TOKEN_MS => Rejected(resp')
     /\ \A tok \in TokenInputs \ {NoToken, cookie} :
          Verification(tok) => Rejected(resp')]_vars

\* C6 (amended statement): the token of a login at time t carries the user's
\* id and email and the expiry floor(t / 1 s) + 2h, in whole seconds; verified
\* at any time whose whole second is before that expiry it yields that id and
\* email; verified at that second or later (so at any time from t + 2h on), or
\* with a signature not made with the server's secret, it is refused.
C6_TokenLifetime ==
  [][/\ \A e \in Registered :
          (LoginFinish(e, RightPassword(e)))
          => /\ cookie'.payload.userId = FindUser(e).id
             /\ cookie'.payload.email = e
             /\ cookie'.payload.exp = (now \div MS_PER_S) + TOKEN_S
     /\ (cookie # NoToken /\ Verification(cookie))
          => /\ cookie.payload.exp = (issuedAt \div MS_PER_S) + TOKEN_S
             /\ now \div MS_PER_S < cookie.payload.exp => Accepted(resp', cookie)
             /\ now \div MS_PER_S >= cookie.payload.exp => Rejected(resp')
             /\ now >= issuedAt + TOKEN_MS => Rejected(resp')
     /\ \A tok \in TokenInputs \ {NoToken, cookie} :
          Verification(tok) => Rejected(resp')]_vars

\* C6 (witness): a token signed 1 ms after a whole second is refused by the
\* session check 1 ms before t + 2h.
C6_Witness ==
  /\ resp.op = "session"
  /\ cookie # NoToken
  /\ resp.token = cookie
  /\ resp.status = 401
  /\ issuedAt % MS_PER_S = 1
  /\ now = issuedAt + TOKEN_MS - 1

----------------------------------------------------------------------------
(* Properties of the task routes, checked under SpecTasks and SpecQuery *)

UserTokens == TaskTokens \ {NoToken}
CallerOf(tok) == tok.payload.userId
Foreign(tok, id) == \E t \in tasks : t.id = id /\ t.userId # CallerOf(tok)
Elements(q) == {q[i] : i \in 1..Len(q)}

\* The step answers a request of route `op` made with token `tok`
Answers(op, tok) == resp'.op = op /\ resp'.token = tok

\* What C7 says of the list and of the stats: the list holds the caller's
\* documents only, and the groups and the total count the caller's documents
\* only (each at the time of its query)
ListAndStatsScoped ==
  /\ \A tok \in UserTokens :
       (Answers("list", tok) /\ GetUserTasks(tok, resp'.query))
       => \A t \in Elements(resp'.body) : t.userId = CallerOf(tok)
  /\ \A tok \in UserTokens :
       (Answers("stats-await", tok) /\ StatsBegin(tok) /\ statsPending' # << >>)
       => \A g \in Elements(statsPending'[1].stats) :
             g.count = Cardinality({t \in tasks : /\ t.userId = CallerOf(tok)
                                                  /\ t.status = g.status})
  /\ (resp'.op = "stats" /\ StatsFinish)
       => resp'.total = Cardinality({t \in tasks : t.userId = resp'.userId})

\* C7 (original statement): a get, update or delete by id of a task owned by
\* another user is answered 404, returns no document and leaves the store as
\* it was; the list and the stats of a user never hold or count another
\* user's task.
C7_Original ==
  [][/\ \A tok \in UserTokens :
          (/\ Foreign(tok, resp'.id)
           /\ \/ Answers("get", tok) /\ GetTaskById(tok, resp'.id)
              \/ Answers("delete", tok) /\ DeleteTask(tok, resp'.id)
              \/ Answers("update", tok)
                   /\ \E b \in UpdateBodies : UpdateTask(tok, resp'.id, b))
          => (resp'.status = 404 /\ resp'.body = << >> /\ tasks' = tasks)
     /\ ListAndStatsScoped]_vars

\* C7 (amended statement): a get or delete by id of a task owned by another
\* user is answered 404; an update of it is answered 404 unless its body is
\* refused before the lookup (400 for a due instant in the past or an unknown
\* status, 500 for a due instant that does not parse); none of the three
\* returns a document or changes the store; the list and the stats of a user
\* never hold or count another user's task.
C7_OwnerIsolation ==
  [][/\ \A tok \in UserTokens :
          (/\ Foreign(tok, resp'.id)
           /\ \/ Answers("get", tok) /\ GetTaskById(tok, resp'.id)
              \/ Answers("delete", tok) /\ DeleteTask(tok, resp'.id))
          => (resp'.status = 404 /\ resp'.body = << >> /\ tasks' = tasks)
     /\ \A tok \in UserTokens, b \in UpdateBodies :
          (Foreign(tok, resp'.id) /\ Answers("update", tok)
             /\ UpdateTask(tok, resp'.id, b))
          => LET due == ParseDate(b.date \o "T" \o b.time)
             IN /\ resp'.body = << >>
                /\ tasks' = tasks
                /\ resp'.status =
                     IF due # NaN /\ due[1] < now THEN 400
                     ELSE IF due = NaN THEN 500
                     ELSE IF b.status \notin Statuses THEN 400
                     ELSE 404
     /\ ListAndStatsScoped]_vars

\* C7 (witness): an update, with a body that would be accepted, of a task of
\* the other user is answered 404 and that task is in the store.
C7_Witness ==
  /\ resp.op = "update"
  /\ resp.status = 404
  /\ resp.userId = 1
  /\ \E t \in tasks : t.id = resp.id /\ t.userId = 2
  /\ \E t \in tasks : t.userId = 1

\* C8 (statement): a create or update whose due instant is before or at the
\* current time is answered 400 and leaves the store as it was; one whose due
\* instant is 1 second after the current time succeeds (201 with the task
\* added; 200 with the caller's task updated).
C8_DueStrictlyFuture ==
  [][\A tok \in UserTokens, b \in GoodBodies :
       LET due == ParseDate(b.date \o "T" \o b.time)[1]
       IN /\ (CreateTask(tok, b) /\ due <= now)
               => (resp'.status = 400 /\ tasks' = tasks)
          /\ (CreateTask(tok, b) /\ due = now + 1000)
               => (resp'.status = 201 /\ tasks' # tasks)
          /\ \A id \in 1..MaxTasks :
               /\ (UpdateTask(tok, id, b) /\ due <= now)
                    => (resp'.status = 400 /\ tasks' = tasks)
               /\ (UpdateTask(tok, id, b) /\ due = now + 1000
                     /\ FindOne(id, CallerOf(tok)) # {})
                    => resp'.status = 200]_vars

\* C9 (original statement): GET /tasks answers with exactly the caller's
\* tasks that pass the status filter (verbatim) and the inclusive fromDate
\* and toDate bounds, ordered by due instant, ascending unless order is "desc".
ListedInOrder(r) ==
  \A i, j \in 1..Len(r.body) :
     i < j => IF r.query.order = "desc"
                THEN r.body[i].dueDate[1] >= r.body[j].dueDate[1]
                ELSE r.body[i].dueDate[1] <= r.body[j].dueDate[1]

PassesStatusAndDates(t, q) ==
  /\ q.status = "" \/ t.status = q.status
  /\ q.fromDate = "" \/ t.dueDate[1] >= ParseDate(q.fromDate)[1]
  /\ q.toDate = "" \/ t.dueDate[1] <= ParseDate(q.toDate)[1]

C9_Original ==
  (resp.op = "list" /\ resp.next)
    => /\ resp.status = 200
       /\ Elements(resp.body) =
            {t \in tasks : t.userId = resp.userId /\ PassesStatusAndDates(t, resp.query)}
       /\ Len(resp.body) = Cardinality(Elements(resp.body))
       /\ ListedInOrder(resp)

\* C9 (amended statement): GET /tasks with date bounds that parse answers
\* with exactly the caller's tasks that pass the status filter (verbatim),
\* the inclusive fromDate and toDate bounds and the title filter (title
\* absent, or the title holds it, letter case ignored), ordered by due
\* instant, ascending unless order is "desc"; with a date bound that does not
\* parse it answers 500 and no task.
HoldsIgnoringCase(title, w) ==
  \E i \in 0..(Len(title) - Len(w)) :
     \A k \in 1..Len(w) : Lower(title[i + k]) = Lower(w[k])

Unparsable(q) ==
  \/ q.fromDate # "" /\ ParseDate(q.fromDate) = NaN
  \/ q.toDate # "" /\ ParseDate(q.toDate) = NaN

C9_ListFilter ==
  (resp.op = "list" /\ resp.next)
    => IF Unparsable(resp.query)
         THEN resp.status = 500 /\ resp.body = << >>
         ELSE /\ resp.status = 200
              /\ Elements(resp.body) =
                   {t \in tasks : /\ t.userId = resp.userId
                                  /\ PassesStatusAndDates(t, resp.query)
                                  /\ \/ resp.query.title = << >>
                                     \/ HoldsIgnoringCase(t.title, resp.query.title)}
              /\ Len(resp.body) = Cardinality(Elements(resp.body))
              /\ ListedInOrder(resp)

\* C9 (witness): both date bounds and the title filter are given, two tasks
\* of the caller with different due instants come back in descending order
\* and a task of the caller is left out.
C9_Witness ==
  /\ resp.op = "list"
  /\ resp.status = 200
  /\ resp.query.fromDate # "" /\ resp.query.toDate # ""
  /\ resp.query.title # << >>
  /\ resp.query.order = "desc"
  /\ resp.query.status = ""
  /\ Len(resp.body) = 2
  /\ resp.body[1].dueDate # resp.body[2].dueDate
  /\ \E t \in tasks : t.userId = resp.userId /\ t \notin Elements(resp.body)

----------------------------------------------------------------------------
(* Properties of the account routes, checked under SpecPolicy, SpecReset and
   SpecSignup *)

\* C11 (statement): every stored credential is the hash of a password that
\* satisfies the password policy; a signup or a reset-password whose password
\* fails the policy is answered with an error status and leaves the user
\* store as it was.
C11_PolicyOnBothPaths ==
  [][/\ \A u \in users' : PasswordRegex(u.password.hashOf)
     /\ \A e \in SignupEmails, p \in SignupPasswords :
          (SignupBegin(e, p, MIN_AGE) /\ ~PasswordRegex(p))
          => (resp'.status = 400 /\ users' = users /\ signing' = signing)
     /\ \A r \in BagToSet(resetting) :
          (ResetSave(r) /\ ~PasswordRegex(r.password))
          => (resp'.status >= 400 /\ users' = users)]_vars

\* The stored document of user id holds this reset token
HoldsToken(id, token) ==
  \E u \in users : u.id = id /\ u.resetPasswordToken = <<token>>

\* C12 (statement): a reset-password whose token is not the stored reset
\* token of a user with an expiry strictly in the future is answered 400 and
\* changes no user; a reset that is answered 200 or changes a user does so
\* for a token that is that user's stored token at that moment, changes that
\* user only and leaves the user without token and expiry, so that a token
\* never succeeds twice; the expiry of a token is 1 hour after the request
\* that issued it.
C12_ResetTokenOnce ==
  [][/\ \A token \in 0..MaxResetTokens, p \in ResetPasswords :
          (ResetBegin(token, p)
             /\ ~\E u \in users : /\ u.resetPasswordToken = <<token>>
                                  /\ u.resetPasswordExpires # << >>
                                  /\ u.resetPasswordExpires[1] > now)
          => (resp'.status = 400 /\ users' = users /\ resetting' = resetting)
     /\ \A r \in BagToSet(resetting) :
          (ResetSave(r) /\ (resp'.status = 200 \/ users' # users))
          => /\ HoldsToken(r.user.id, r.token)
             /\ \A u \in users : u.id # r.user.id => u \in users'
             /\ \A u \in users' :
                  u.id = r.user.id => /\ u.resetPasswordToken = << >>
                                      /\ u.resetPasswordExpires = << >>
     /\ \A e \in Emails :
          (ForgotPassword(e, TRUE) /\ users' # users)
          => \E u \in users' : /\ u.email = e
                               /\ u.resetPasswordExpires = <<now + RESET_MS>>]_vars

----------------------------------------------------------------------------
(* Further properties of the login throttle, checked under Spec *)

\* C13 (statement): whatever the throttle state, a login with an
\* unregistered email and a login with a registered email and a wrong
\* password are answered alike: both with status 401.
C13_FailedLoginsAlike ==
  [][\A p \in Passwords :
       /\ LoginBegin("c@x.io", p) => (resp'.op = "login" /\ resp'.status = 401)
       /\ \A e \in Registered :
            (/\ p # RightPassword(e)
             /\ LoginBegin(e, p) \/ LoginFinish(e, p)
             /\ resp'.op = "login")
            => resp'.status = 401]_vars

----------------------------------------------------------------------------
(* Properties of the error handler, checked under SpecErrors *)

\* C14 (statement): the error handler answers a schema validation failure
\* with 400, a duplicate-key error (code 11000) with 409, an invalid or
\* expired token error with 401 and every other error with 500 and the
\* generic message; the message of the response is never the error's own.
C14_ErrorMapping ==
  (resp.op = "error" /\ resp.status # 0)
    => LET err == resp.err
       IN /\ resp.status =
               IF err.name = "ValidationError" THEN 400
               ELSE IF err.code = 11000 THEN 409
               ELSE IF err.name \in {"JsonWebTokenError", "TokenExpiredError"} THEN 401
               ELSE 500
          /\ resp.status = 500 => resp.message = GENERIC_MESSAGE
          /\ err.message # "" => resp.message # err.message

----------------------------------------------------------------------------
(* Properties of signup and profile update, checked under SpecSignup *)

UniqueEmails(U) == \A u, v \in U : u.email = v.email => u = v

\* A signup body that passes signup's own checks: fields present, password
\* policy
PassesSignupChecks(email, password, age) ==
  /\ email # "" /\ password # "" /\ age # 0
  /\ PasswordRegex(password)

\* C15 (original statement): no two user records share an email, whatever
\* the interleaving of signups and profile updates; a signup with an email
\* that is already registered is answered 409 and creates no user, also when
\* the email was registered by a concurrent signup after this one passed the
\* existence check.
C15_Original ==
  [][/\ UniqueEmails(users')
     /\ \A e \in SignupEmails, p \in SignupPasswords, age \in Ages :
          (SignupBegin(e, p, age) /\ \E u \in users : u.email = e)
          => (resp'.status = 409 /\ users' = users /\ signing' = signing)
     /\ \A r \in BagToSet(signing) :
          (SignupSave(r) /\ \E u \in users : u.email = r.email)
          => (resp'.status = 409 /\ users' = users)]_vars

\* C15 (amended statement): no two user records share an email, whatever the
\* interleaving of signups and profile updates; a signup with an email that
\* is already registered creates no user and is answered 409 when its fields
\* are present and its password satisfies the policy (400 otherwise); a
\* signup that passed the existence check and finds the email registered by
\* a concurrent signup when it saves creates no user and is answered 409
\* when its age and email pass the schema's validators (400 otherwise); of
\* two valid signups for the same new email the first to save is answered
\* 201 and the other 409.
C15_EmailUnique ==
  [][/\ UniqueEmails(users')
     /\ \A e \in SignupEmails, p \in SignupPasswords, age \in Ages :
          (SignupBegin(e, p, age) /\ \E u \in users : u.email = e)
          => /\ users' = users /\ signing' = signing
             /\ resp'.status = IF PassesSignupChecks(e, p, age) THEN 409 ELSE 400
     /\ \A r \in BagToSet(signing) :
          SignupSave(r)
          => IF \E u \in users : u.email = r.email
               THEN /\ users' = users
                    /\ resp'.status =
                         IF UserSchemaValid(r.age, r.email) THEN 409 ELSE 400
             ELSE IF UserSchemaValid(r.age, r.email)
               THEN /\ resp'.status = 201
                    /\ \E u \in users' : /\ u.email = r.email
                                         /\ u.id = resp'.userId
                                         /\ users' = users \cup {u}
               ELSE resp'.status = 400 /\ users' = users]_vars

\* C15 (witness): a signup that had passed the existence check is answered
\* 409 by the duplicate-key error, the email being held by a user that
\* signed up meanwhile.
C15_Witness ==
  /\ resp.op = "signup"
  /\ resp.status = 409
  /\ resp.err = DuplicateKey
  /\ \E u \in users : u.email = resp.email /\ u.id > Cardinality(InitUsers)

----------------------------------------------------------------------------
(* Concurrency of the login throttle *)

\* C16 (as stated): while an email is locked (lockedUntil > now), every step
\* of a login for that email, the resumption of a request suspended at the
\* password comparison included, answers 423, authenticates nobody and leaves
\* the failure counter as it was.
C16_NoComparisonWhileLocked ==
  [][\A e \in Registered, p \in Passwords :
       (/\ IsLocked(loginAttempts[e], now)
        /\ (LoginBegin(e, p) \/ LoginFinish(e, p)))
       => (/\ resp'.op = "login"
           /\ resp'.status = 423
           /\ cookie' = cookie
           /\ loginAttempts'[e].count = loginAttempts[e].count)]_vars

\* C17: under any interleaving of logins, an email's counter is the number of
\* failed comparisons completed since its last successful one, a failed
\* comparison that brings the counter to 5 or more sets lockedUntil in that
\* same step, and a login for one email leaves every other email's entry alone.
C17_EntryAtomicAndIndependent ==
  [][\A e \in Registered :
       /\ (loginAttempts'[e] # NoEntry => loginAttempts'[e].count = fails'[e])
       /\ (loginAttempts'[e] = NoEntry => fails'[e] = 0)
       /\ \A p \in Passwords :
            /\ (/\ resp'.status = 401
                /\ loginAttempts'[e] # NoEntry
                /\ loginAttempts'[e].count >= LOCK_THRESHOLD
                /\ LoginFinish(e, p))
               => (/\ loginAttempts'[e].count = loginAttempts[e].count + 1
                   /\ loginAttempts'[e].lockedUntil = <<now + LOCK_MS>>)
            /\ \A f \in Emails \ {e} :
                 (loginAttempts'[f] # loginAttempts[f])
                 => ~(LoginBegin(e, p) \/ LoginFinish(e, p))]_vars

\* C17 (witness): a failed comparison has just brought the counter to the
\* threshold and set the lock while another request for the same email, which
\* passed the lock check earlier, is still suspended at its comparison.
C17_Witness ==
  /\ resp.op = "login"
  /\ resp.status = 401
  /\ loginAttempts[resp.email] # NoEntry
  /\ loginAttempts[resp.email].count = LOCK_THRESHOLD
  /\ loginAttempts[resp.email].lockedUntil = <<now + LOCK_MS>>
  /\ \E r \in BagToSet(pending) : r.email = resp.email

\* C18: the counter of an email goes down only in the step of a successful
\* login for it (never when a lock is set or runs out), and once the counter
\* has reached 5 and the lock has run out, the next failed comparison raises
\* the counter beyond 5 and locks the email for a new 15 minutes.
C18_OnlySuccessResets ==
  [][\A e \in Registered :
       /\ (/\ loginAttempts[e] # NoEntry
           /\ (loginAttempts'[e] = NoEntry
                \/ loginAttempts'[e].count < loginAttempts[e].count))
          => (/\ \E p \in Passwords : LoginFinish(e, p)
              /\ resp'.op = "login"
              /\ resp'.status = 200
              /\ resp'.email = e)
       /\ \A p \in Passwords :
            (/\ loginAttempts[e] # NoEntry
             /\ loginAttempts[e].count >= LOCK_THRESHOLD
             /\ ~IsLocked(loginAttempts[e], now)
             /\ LoginFinish(e, p)
             /\ resp'.status = 401)
            => (/\ loginAttempts'[e].count = loginAttempts[e].count + 1
                /\ loginAttempts'[e].count > LOCK_THRESHOLD
                /\ loginAttempts'[e].lockedUntil = <<now + LOCK_MS>>)]_vars

\* C18 (witness): five failures locked the email at time 0, the lock ran out
\* with no successful login, and one more failure has raised the counter to 6
\* and locked the email anew.
C18_Witness ==
  /\ resp.op = "login"
  /\ resp.status = 401
  /\ now >= LOCK_MS
  /\ loginAttempts[resp.email] # NoEntry
  /\ loginAttempts[resp.email].count = LOCK_THRESHOLD + 1
  /\ loginAttempts[resp.email].lockedUntil = <<now + LOCK_MS>>
  /\ fails[resp.email] = LOCK_THRESHOLD + 1

----------------------------------------------------------------------------
(* Consistency of GET /tasks/stats under concurrent writes *)

\* The sum of the counts of a byStatus array
RECURSIVE SumCounts(_)
SumCounts(byStatus) ==
  IF byStatus = << >> THEN 0
  ELSE Head(byStatus).count + SumCounts(Tail(byStatus))

\* C19 (as stated): in every 200 response of GET /tasks/stats the counts of
\* byStatus add up to total, whatever task writes took place between the
\* handler's aggregation and its countDocuments.
C19_GroupsAddUpToTotal ==
  (resp.op = "stats" /\ resp.status = 200)
    => SumCounts(resp.body) = resp.total

----------------------------------------------------------------------------
(* Specification of a session through logout, password reset and account
   deletion *)

\* The token the session's login set, once it has
Held == IF cookie = NoToken THEN {} ELSE {cookie}

StatelessPasswords == {"Passwd-a", "Passwd-c"}
StatelessBodies == {Body(<<"b">>, "1970-01-01", "00:01", "todo")}

\* One login of a@x.io, then requests carrying its token while the user logs
\* out, resets the password and deletes the account, and the clock runs up to
\* and past the token's expiry
NextStateless ==
  \/ Idle /\ cookie = NoToken /\ pending = EmptyBag
          /\ LoginBegin("a@x.io", "Passwd-a")
  \/ LoginFinish("a@x.io", "Passwd-a")
  \/ \E tok \in Held : Idle /\ Logout(tok)
  \/ Idle /\ cookie # NoToken /\ ForgotPassword("a@x.io", TRUE)
  \/ \E token \in mail : Idle /\ ResetBegin(token, "Passwd-c")
  \/ Idle /\ ResetFinish
  \/ \E tok \in Held, p \in StatelessPasswords : Idle /\ DeleteProfile(tok, p)
  \/ \E tok \in Held, m \in {"GET", "OPTIONS"} : Idle /\ AuthRequest(m, tok)
  \/ \E tok \in Held : Idle /\ SessionCheck(tok)
  \/ \E tok \in Held, b \in StatelessBodies :
        Idle /\ nextId <= MaxTasks /\ CreateTask(tok, b)
  \/ \E tok \in Held : Idle /\ GetUserTasks(tok, NoFilter)
  \/ \E d \in TokenDeltas : Idle /\ Tick(d)
  \/ Deliver

SpecStateless == Init /\ [][NextStateless]_vars

\* C20: at every time before the expiry instant of the token a login issued,
\* whatever the user has done since (logout, password reset, account
\* deletion), the auth middleware passes a request carrying the token with its
\* payload as req.user, the session check answers 200 with that payload, a
\* well-formed POST /tasks with a due date not in the past creates a task
\* under the token's user id, GET /tasks lists the tasks of that id, and the
\* deletion of the account leaves the tasks in the store.
C20_TokenStateless ==
  [][\A tok \in Held :
       (now < tok.payload.exp * MS_PER_S)
       => /\ \A m \in Methods \ {"OPTIONS"} :
               AuthRequest(m, tok)
               => (resp'.next /\ resp'.status = 0 /\ resp'.user = tok.payload)
          /\ SessionCheck(tok)
             => (resp'.status = 200 /\ resp'.user = tok.payload)
          /\ \A b \in StatelessBodies :
               (/\ ~DueInPast(ParseDate(b.date \o "T" \o b.time), now)
                /\ CreateTask(tok, b))
               => (/\ resp'.status = 201
                   /\ \E t \in tasks' \ tasks : t.userId = tok.payload.userId)
          /\ GetUserTasks(tok, NoFilter)
             => (/\ resp'.status = 200
                 /\ Elements(resp'.body) =
                      {t \in tasks : t.userId = tok.payload.userId})
          /\ \A p \in StatelessPasswords :
               DeleteProfile(tok, p) => tasks' = tasks]_vars

\* C20 (witness): the user a@x.io has deleted the account, the response of
\* the deletion cleared the cookie, and a POST /tasks carrying the token has
\* just created a task under the deleted user's id, which now owns two
\* stored tasks.
C20_Witness ==
  /\ resp.op = "create"
  /\ resp.status = 201
  /\ resp.token \in cleared
  /\ ~\E u \in users : u.id = resp.userId
  /\ Cardinality({t \in tasks : t.userId = resp.userId}) = 2
  /\ now > 0

----------------------------------------------------------------------------
(* The application's middleware stack (index.js) and the rate limiter
   (rateLimiter.js) *)

RATE_MAX == 100          \* max: 100
WINDOW_MS == 900000      \* windowMs: 15 * 60 * 1000

\* The limiter's store on a request of ip at time t: a window of WINDOW_MS
\* starts with the first request counted and with the first one after its end
LimiterHit(ip, t) ==
  IF resetAt[ip] = NullTime \/ t >= resetAt[ip][1]
    THEN [count |-> 1, resetAt |-> <<t + WINDOW_MS>>]
    ELSE [count |-> hits[ip] + 1, resetAt |-> resetAt[ip]]

\* limiter(req, res, next) with the request counted: 429 beyond max, else next()
Limiter(count) ==
  IF count > RATE_MAX THEN [status |-> 429, next |-> FALSE]
  ELSE [status |-> 0, next |-> TRUE]

\* GET /profile: authMiddleware, getProfile.  dbDown: findById rejects and the
\* catch block calls next(error)
GetProfile(tok, t, dbDown) ==
  LET mw == AuthMiddleware("GET", tok, t)
  IN IF ~mw.next THEN [status |-> mw.status, err |-> NoErr]
     ELSE IF dbDown THEN [status |-> 0, err |-> Err("MongooseError", 0)]
     ELSE IF ~\E u \in users : u.id = mw.user.userId
       THEN [status |-> 404, err |-> NoErr]
     ELSE [status |-> 200, err |-> NoErr]

\* The GET paths of the requests: two routes of the router mounted at /api, a
\* path under /api that no route matches, and the root path
ApiRoutes == {"/api/session", "/api/profile"}
Paths == ApiRoutes \cup {"/api/nowhere", "/"}

\* app.use('/api', routes): the router answers (next: FALSE), passes an error
\* on (err), or, with no route for the path, calls next()
Router(path, tok, t, dbDown) ==
  IF path = "/api/session"
    THEN [status |-> Session(tok, t).status, err |-> NoErr, next |-> FALSE]
  ELSE IF path = "/api/profile"
    THEN LET out == GetProfile(tok, t, dbDown)
         IN [status |-> out.status, err |-> out.err, next |-> FALSE]
  ELSE [status |-> 0, err |-> NoErr, next |-> TRUE]

\* The 15 minutes in which the request of ip at time t falls: the running
\* ones, or new ones that begin with this request
SeenHit(ip, t) ==
  IF seenFrom[ip] = NullTime \/ t >= seenFrom[ip][1] + WINDOW_MS
    THEN [count |-> 1, from |-> <<t>>]
    ELSE [count |-> seen[ip] + 1, from |-> seenFrom[ip]]

\* A GET request of ip through the stack in the order index.js mounts it:
\* the router at /api, then the limiter, then errorHandler (reached from
\* next(error) only, past the limiter), then app.get('/'), then express's 404
AppRequest(ip, path, tok, dbDown) ==
  LET router == Router(path, tok, now, dbDown)
      hit == LimiterHit(ip, now)
      limit == Limiter(hit.count)
      sh == SeenHit(ip, now)
      answer(by, status, err) ==
        [NoResponse EXCEPT !.op = "app", !.method = "GET", !.token = tok,
                           !.ip = ip, !.path = path, !.by = by,
                           !.status = status, !.err = err]
  IN /\ seen' = [seen EXCEPT ![ip] = sh.count]
     /\ seenFrom' = [seenFrom EXCEPT ![ip] = sh.from]
     /\ UNCHANGED <<now, advances, accountVars, loginVars, taskVars>>
     /\ IF router.err # NoErr
          THEN /\ resp' = answer("errorHandler", ErrorHandler(router.err), router.err)
               /\ UNCHANGED <<hits, resetAt>>
        ELSE IF ~router.next
          THEN /\ resp' = answer("route", router.status, NoErr)
               /\ UNCHANGED <<hits, resetAt>>
          ELSE /\ hits' = [hits EXCEPT ![ip] = hit.count]
               /\ resetAt' = [resetAt EXCEPT ![ip] = hit.resetAt]
               /\ resp' = IF ~limit.next THEN answer("limiter", limit.status, NoErr)
                          ELSE IF path = "/" THEN answer("root", 200, NoErr)
                          ELSE answer("notFound", 404, NoErr)

----------------------------------------------------------------------------
(* Specification of the application under repeated requests *)

MaxRequests == 102
MaxOtherRequests == 1

\* How many requests of an IP the model follows in one window
Quota(ip) == IF ip = "10.0.0.1" THEN MaxRequests ELSE MaxOtherRequests

\* Advance of the clock to the end of a window
WindowDeltas == {WINDOW_MS}

AppInputs ==
  {<<"/api/session", TokenOf("a@x.io"), FALSE>>,
   <<"/api/profile", TokenOf("a@x.io"), TRUE>>,
   <<"/api/nowhere", NoToken, FALSE>>,
   <<"/", NoToken, FALSE>>}

NextApp ==
  \/ \E ip \in IPs, r \in AppInputs :
        seen[ip] < Quota(ip) /\ AppRequest(ip, r[1], r[2], r[3])
  \/ \E d \in WindowDeltas : Tick(d)

SpecApp == Init /\ [][NextApp]_vars

\* C21 (as stated): a request of an IP to a route under /api that is the
\* 101st or a later one of that IP within 15 minutes is answered 429, and not
\* by the route's handler.
C21_ApiRoutesLimited ==
  (/\ resp.op = "app"
   /\ resp.path \in ApiRoutes
   /\ seen[resp.ip] > RATE_MAX)
  => (resp.status = 429 /\ resp.by = "limiter")

====
